---- MODULE Spec2Model ----
(***************************************************************************)
(* tuxvdmtool: the CD321x command/protocol engine (src/src/cd321x.rs) and  *)
(* its driver (src/src/main.rs), as a state machine.                        *)
(*                                                                          *)
(* The program is sequential.  Its state is the call stack of the Device    *)
(* methods in progress; every action is one step of one method: one         *)
(* backend register access, or the decision taken when a callee returns.    *)
(* The environment (the controller behind the transport backend) chooses    *)
(* the bytes every register read returns, whether an access fails, and how  *)
(* long a read takes.                                                       *)
(*                                                                          *)
(* Bytes are numbers 0..255, byte strings are sequences of them.  A u32 is   *)
(* the pair <<high 16 bits, low 16 bits>> (TLC's integers are 32-bit         *)
(* signed, 0x80010000 does not fit).  Durations are in milliseconds; time    *)
(* advances in steps of POLL_WAIT, the shortest duration of the code.        *)
(***************************************************************************)
EXTENDS Integers, Sequences, FiniteSets, TLC

VARIABLES
    stack,      \* call stack: frames [fn, pc, a], innermost last
    ret,        \* result of the call that returned last: [ok, err, mode, ps]
    clk,        \* exec_cmd_with_timing: start.elapsed(), ms (saturating)
    rsClk,      \* reboot_serial: now.elapsed(), ms (saturating)
    compat,     \* bytes 0..10 of /proc/device-tree/compatible
    exit,       \* "running", or how the process ended
    mainRes,    \* the result vdmtool() returns to main
    actionRes,  \* history: the result the subcommand returned
    unwinding,  \* a panic is unwinding the stack
    \* The histories are those of the current phase of the run (session
    \* open, the subcommand, teardown); each phase starts with them empty.
    wlog,       \* history: every backend.write call, in order
    cmdlog,     \* history: every exec_cmd_with_timing call, in order
    cmd,        \* history: the register accesses of the current/last command
    lastMode,   \* history: the most recent get_mode call
    lastRaw,    \* history: the buffer the most recent backend.read filled
    rsReadings  \* history: the connected bits read by reboot_serial's loop

vars == <<stack, ret, clk, rsClk, compat, exit, mainRes, actionRes, unwinding,
          wlog, cmdlog, cmd, lastMode, lastRaw, rsReadings>>

(***************************************************************************)
(* Bounds of the model.                                                    *)
(***************************************************************************)
\* A backend read takes 0..MaxIoTicks steps of POLL_WAIT.
MaxIoTicks == 1
\* The per-command count of CMD1 reads saturates here.
MaxCount == 3
\* Longest vendor data object list the vdms unit specification passes.
MaxVdos == 8
\* The longest payload the block-framing runs enumerate byte by byte.
MaxPayload == 3

(***************************************************************************)
(* Constants of the program.                                               *)
(***************************************************************************)
RECONNECT_TIMEOUT == 3000
POLL_WAIT == 100
RECONNECT_WAIT == 1000

TPS_REG_MODE == 3
TPS_REG_CMD1 == 8
TPS_REG_DATA1 == 9
TPS_REG_POWER_STATUS == 63

\* enum VdmSopType
Sop == 0
SopPrime == 1
SopPrimePrime == 2
SopStar == 3

\* exec_cmd's timing profile and vdms' timing profile
EXEC_CMD_TIMEOUT == 1000
EXEC_CMD_DELAY == 0
VDMS_TIMEOUT == 200
VDMS_DELAY == 200

\* ASCII
TagLOCK == <<76, 79, 67, 75>>
TagGaid == <<71, 97, 105, 100>>
TagDBMa == <<68, 66, 77, 97>>
TagVDMs == <<86, 68, 77, 115>>
TagDVEn == <<68, 86, 69, 110>>
StrAPP  == <<65, 80, 80, 32>>
StrBOOT == <<66, 79, 79, 84>>
StrBIST == <<66, 73, 83, 84>>
StrDISC == <<68, 73, 83, 67>>
StrPTCH == <<80, 84, 67, 72>>
StrDBMa == <<68, 66, 77, 97>>
StrApple == <<97, 112, 112, 108, 101>>
Comma == 44

\* u32 literals as <<high 16 bits, low 16 bits>>
U32Zero == <<0, 0>>
\* 0x444d4321
InvalidCmd == <<17485, 17185>>
\* [0x5ac8012, 0x106, 0x80010000]
DfuVdos == << <<1452, 32786>>, <<0, 262>>, <<32769, 0>> >>
\* [0x5ac8012, 0x105, 0x80000000]
RebootVdos == << <<1452, 32786>>, <<0, 261>>, <<32768, 0>> >>
\* [0x5ac8012, 0x1840306]
SerialVdos == << <<1452, 32786>>, <<388, 774>> >>

(***************************************************************************)
(* Pure functions.                                                         *)
(***************************************************************************)
Min(a, b) == IF a < b THEN a ELSE b

RECURSIVE Concat(_)
Concat(ss) == IF ss = <<>> THEN <<>> ELSE Head(ss) \o Concat(Tail(ss))

\* The bytes in big-endian order.
ToLeBytes_BigEndian(v) == <<v[1] \div 256, v[1] % 256, v[2] \div 256, v[2] % 256>>

\* u32::to_le_bytes
ToLeBytes(v) == <<v[2] % 256, v[2] \div 256, v[1] % 256, v[1] \div 256>>

\* u32::from_le_bytes
FromLeBytes32(b) == <<b[4] * 256 + b[3], b[2] * 256 + b[1]>>

\* u16::from_le_bytes
FromLeBytes16(b) == b[2] * 256 + b[1]

is_invalid_cmd(val) == val = InvalidCmd

\* The length byte counting itself.
WriteBlock_LengthCountsItself(data) == <<Len(data) + 1>> \o data

\* write_block: the buffer handed to backend.write
WriteBlock(data) == <<Len(data)>> \o data

\* read_block: what the caller's buffer of out_len bytes receives
ReadBlock(internal_buf, out_len) == SubSeq(internal_buf, 2, out_len + 1)

\* std::str::from_utf8(..).is_ok()
RECURSIVE IsUtf8(_)
IsUtf8(b) ==
    IF b = <<>> THEN TRUE
    ELSE LET c == b[1]
             n == Len(b)
             Cont(i) == i <= n /\ b[i] >= 128 /\ b[i] <= 191
             In(i, lo, hi) == i <= n /\ b[i] >= lo /\ b[i] <= hi
             Rest(k) == IsUtf8(SubSeq(b, k + 1, n))
         IN  IF c <= 127 THEN Rest(1)
             ELSE IF c >= 194 /\ c <= 223 THEN Cont(2) /\ Rest(2)
             ELSE IF c = 224 THEN In(2, 160, 191) /\ Cont(3) /\ Rest(3)
             ELSE IF c = 237 THEN In(2, 128, 159) /\ Cont(3) /\ Rest(3)
             ELSE IF c >= 225 /\ c <= 239 THEN Cont(2) /\ Cont(3) /\ Rest(3)
             ELSE IF c = 240 THEN In(2, 144, 191) /\ Cont(3) /\ Cont(4) /\ Rest(4)
             ELSE IF c >= 241 /\ c <= 243 THEN Cont(2) /\ Cont(3) /\ Cont(4) /\ Rest(4)
             ELSE IF c = 244 THEN In(2, 128, 143) /\ Cont(3) /\ Cont(4) /\ Rest(4)
             ELSE FALSE

\* TpsMode::from_str; "Err" for Err(())
TpsModeFromStr(s) ==
    IF s = StrAPP THEN "TpsModeApp"
    ELSE IF s = StrBOOT THEN "TpsModeBoot"
    ELSE IF s = StrBIST THEN "TpsModeBist"
    ELSE IF s = StrDISC THEN "TpsModeDisc"
    ELSE IF s = StrPTCH THEN "TpsModePtch"
    ELSE IF s = StrDBMa THEN "TpsModeDbma"
    ELSE "Err"

\* u8::to_ascii_uppercase, as str::to_uppercase acts on ASCII
ToUpperByte(c) == IF c >= 97 /\ c <= 122 THEN c - 32 ELSE c

ToUppercase(s) == [i \in 1..Len(s) |-> ToUpperByte(s[i])]

\* str::split_once(","): the index of the first comma, 0 when there is none
SplitIndex(s) ==
    IF \E i \in 1..Len(s) : s[i] = Comma
    THEN CHOOSE i \in 1..Len(s) : s[i] = Comma /\ \A j \in 1..(i - 1) : s[j] # Comma
    ELSE 0

Manufacturer(s) == SubSeq(s, 1, SplitIndex(s) - 1)

ModelToken(s) == SubSeq(s, SplitIndex(s) + 1, Len(s))

\* LinuxBackend::get_unlock_key
GetUnlockKey(s) == ToUppercase(ModelToken(s))

\* u8 | u8
RECURSIVE BitOr(_, _)
BitOr(a, b) ==
    IF a = 0 THEN b
    ELSE IF b = 0 THEN a
    ELSE (IF a % 2 = 1 \/ b % 2 = 1 THEN 1 ELSE 0) + 2 * BitOr(a \div 2, b \div 2)

\* vdms: the header byte ((sop as u8) << 4) | vdos.len() as u8
VdmHeader(sop, n) == BitOr((sop * 16) % 256, n % 256)

\* vdms: the DATA1 payload of a VDM
VdmData(sop, vdos) ==
    <<VdmHeader(sop, Len(vdos))>> \o Concat([i \in 1..Len(vdos) |-> ToLeBytes(vdos[i])])

\* dven: the DATA1 payload
DvenData(vdos) == Concat([i \in 1..Len(vdos) |-> ToLeBytes(vdos[i])])

(***************************************************************************)
(* What the environment can answer.                                        *)
(***************************************************************************)
\* CMD1: idle, the invalid-command sentinel "!CMD", busy, and an idle
\* buffer whose length byte is 0 (what a backend that fills nothing leaves).
CmdBufs == { <<4, 0, 0, 0, 0>>, <<4, 33, 67, 77, 68>>, <<4, 1, 0, 0, 0>>, <<0, 0, 0, 0, 0>> }

\* MODE: "DBMa", "APP ", an unknown tag (NULs, length byte 0), bytes that
\* are not UTF-8.
ModeBufs == { <<4>> \o StrDBMa, <<4>> \o StrAPP, <<0, 0, 0, 0, 0>>, <<4, 255, 255, 255, 255>> }

\* POWER_STATUS: connected (bit 0), disconnected with the sink bit (bit 1)
\* set, disconnected with length byte 0.
PowerBufs == { <<2, 1, 0>>, <<2, 2, 0>>, <<0, 0, 0>> }

\* /proc/device-tree/compatible[0..10]: "apple,j314", "linux,dumm", "raspberryp"
CompatStrings == { StrApple \o <<Comma, 106, 51, 49, 52>>,
                   <<108, 105, 110, 117, 120, Comma, 100, 117, 109, 109>>,
                   <<114, 97, 115, 112, 98, 101, 114, 114, 121, 112>> }

\* ControllerBackend::read: Err(I2CError), or Ok with the buffer filled
ReadOutcomes(bufs) ==
    { [ok |-> FALSE, raw |-> <<>>] } \cup { [ok |-> TRUE, raw |-> b] : b \in bufs }

\* How long one backend read takes.
IoTimes == { k * POLL_WAIT : k \in 0..MaxIoTicks }

(***************************************************************************)
(* Results, frames, the stack.                                             *)
(***************************************************************************)
RetOk == [ok |-> TRUE, err |-> "none", mode |-> "none", ps |-> 0]
RetErr(e) == [ok |-> FALSE, err |-> e, mode |-> "none", ps |-> 0]
RetMode(m) == [ok |-> TRUE, err |-> "none", mode |-> m, ps |-> 0]
RetPs(v) == [ok |-> TRUE, err |-> "none", mode |-> "none", ps |-> v]
RetPending == [ok |-> FALSE, err |-> "pending", mode |-> "none", ps |-> 0]

ResOf(r) == IF r.ok THEN "ok" ELSE r.err

Top == stack[Len(stack)]
At(f, p) == exit = "running" /\ stack # <<>> /\ Top.fn = f /\ Top.pc = p
Frame(f, p, a) == [fn |-> f, pc |-> p, a |-> a]
SetPc(p) == [stack EXCEPT ![Len(stack)].pc = p]
SetTop(p, a) == [stack EXCEPT ![Len(stack)] = Frame(Top.fn, p, a)]
CallFrom(p, fr) == Append(SetPc(p), fr)
Popped == SubSeq(stack, 1, Len(stack) - 1)
OnStack(f) == \E i \in 1..Len(stack) : stack[i].fn = f

\* Which part of the run the innermost call belongs to.
Phase ==
    IF OnStack("drop") THEN "teardown"
    ELSE IF OnStack("new") THEN "open"
    ELSE "action"

\* The history of one command: first is the value the busy check read,
\* lastVal the value the latest poll read (<<>>: no such read yet, IoErr:
\* the read failed), lastClk the elapsed time at that poll, reads and polls
\* the CMD1 reads (all, and those of the poll loop), dataW and tagW the
\* writes to DATA1 and CMD1, w0 the length of wlog when the command began.
NoCmd == [tag |-> <<>>, data |-> <<>>, timeout |-> 0, delay |-> 0, first |-> <<>>,
          reads |-> 0, polls |-> 0, dataW |-> 0, tagW |-> 0, w0 |-> 0, lastVal |-> <<>>,
          lastClk |-> 0, slept |-> 0, res |-> "none"]

IoErr == <<-1, -1>>

\* The history of one get_mode call: the phase, the caller (by), the
\* outcome (res: the mode, "Err" for an unknown tag, "I2CError", "panic"),
\* n the number of get_mode calls of the phase so far, w the length of wlog
\* at the call.
NoMode == [phase |-> "none", res |-> "none", by |-> "none", n |-> 0, w |-> 0]

Init ==
    /\ stack = << Frame("main", "start", <<>>) >>
    /\ ret = RetPending
    /\ clk = 0
    /\ rsClk = 0
    /\ compat \in CompatStrings
    /\ exit = "running"
    /\ mainRes = "none"
    /\ actionRes = "none"
    /\ unwinding = FALSE
    /\ wlog = <<>>
    /\ cmdlog = <<>>
    /\ cmd = NoCmd
    /\ lastMode = NoMode
    /\ lastRaw = <<>>
    /\ rsReadings = <<>>

(***************************************************************************)
(* exec_cmd_with_timing                                                    *)
(***************************************************************************)
Sat(n) == Min(n, MaxCount)

\* The elapsed time measured from the latest iteration, not from the start.
Adv_Restarted(t, d, limit) == Min(d, limit + POLL_WAIT)

\* Elapsed time, kept up to one step past the limit it is compared with.
Adv(t, d, limit) == Min(t + d, limit + POLL_WAIT)

ExecFrame(tag, data, timeout, delay) ==
    Frame("exec", "busy", [tag |-> tag, data |-> data, timeout |-> timeout, delay |-> delay])

\* The call of exec_cmd_with_timing from the caller's position; the caller
\* continues at p when it returns.
CallExec(p, tag, data, timeout, delay) ==
    /\ stack' = CallFrom(p, ExecFrame(tag, data, timeout, delay))
    /\ cmdlog' = Append(cmdlog, [tag |-> tag, data |-> data, by |-> Top.fn,
                                 phase |-> Phase, res |-> "pending"])
    /\ cmd' = [NoCmd EXCEPT !.tag = tag, !.data = data, !.timeout = timeout,
                            !.delay = delay, !.w0 = Len(wlog), !.res = "pending"]
    /\ ret' = RetPending

\* exec_cmd: the default timing profile
CallExecCmd(p, tag, data) == CallExec(p, tag, data, EXEC_CMD_TIMEOUT, EXEC_CMD_DELAY)

\* exec_cmd_with_timing returns r
ExecReturn(r, c) ==
    /\ stack' = Popped
    /\ ret' = r
    /\ cmd' = [c EXCEPT !.res = ResOf(r)]
    /\ cmdlog' = [cmdlog EXCEPT ![Len(cmdlog)].res = ResOf(r)]

\* The busy check with the sentinel test inverted.
BusyCheckFails_SentinelOnly(val) == val # U32Zero /\ is_invalid_cmd(val)

\* First: check CMD1 register busy
BusyCheckFails(val) == val # U32Zero /\ ~is_invalid_cmd(val)

\* The payload written to DATA1 even when it is empty.
AfterBusy_AlwaysData(data) == "data"

\* if !in_data.is_empty() { write DATA1 }, then the tag
AfterBusy(data) == IF data # <<>> THEN "data" ELSE "tag"

ExecBusyCheck ==
    /\ At("exec", "busy")
    /\ \E r \in ReadOutcomes(CmdBufs) :
         LET c1 == [cmd EXCEPT !.reads = Sat(@ + 1)]
         IN  IF ~r.ok
             THEN /\ ExecReturn(RetErr("I2CError"), [c1 EXCEPT !.first = IoErr])
                  /\ UNCHANGED lastRaw
             ELSE LET val == FromLeBytes32(ReadBlock(r.raw, 4))
                      c2 == [c1 EXCEPT !.first = val]
                  IN  /\ lastRaw' = r.raw
                      /\ IF BusyCheckFails(val)
                         THEN ExecReturn(RetErr("TypecController"), c2)
                         ELSE /\ stack' = SetPc(AfterBusy(Top.a.data))
                              /\ cmd' = c2
                              /\ UNCHANGED <<ret, cmdlog>>
    /\ UNCHANGED <<clk, rsClk, compat, exit, mainRes, actionRes, unwinding, wlog, lastMode, rsReadings>>

\* Write input data to DATA1
ExecWriteData ==
    /\ At("exec", "data")
    /\ \E ok \in BOOLEAN :
         /\ wlog' = Append(wlog, [reg |-> TPS_REG_DATA1, buf |-> WriteBlock(Top.a.data),
                                  ok |-> ok, phase |-> Phase])
         /\ IF ok
            THEN /\ stack' = SetPc("tag")
                 /\ cmd' = [cmd EXCEPT !.dataW = @ + 1]
                 /\ UNCHANGED <<ret, cmdlog>>
            ELSE ExecReturn(RetErr("I2CError"), [cmd EXCEPT !.dataW = @ + 1])
    /\ UNCHANGED <<clk, rsClk, compat, exit, mainRes, actionRes, unwinding, lastMode, lastRaw, rsReadings>>

\* Write 4-byte command tag; start = Instant::now()
ExecWriteTag ==
    /\ At("exec", "tag")
    /\ \E ok \in BOOLEAN :
         /\ wlog' = Append(wlog, [reg |-> TPS_REG_CMD1, buf |-> WriteBlock(Top.a.tag),
                                  ok |-> ok, phase |-> Phase])
         /\ IF ok
            THEN /\ stack' = SetPc("poll")
                 /\ cmd' = [cmd EXCEPT !.tagW = @ + 1]
                 /\ UNCHANGED <<ret, cmdlog>>
            ELSE ExecReturn(RetErr("I2CError"), [cmd EXCEPT !.tagW = @ + 1])
    /\ clk' = 0
    /\ UNCHANGED <<rsClk, compat, exit, mainRes, actionRes, unwinding, lastMode, lastRaw, rsReadings>>

\* start.elapsed() > cmd_timeout
CmdTimedOut(elapsed, timeout) == elapsed > timeout

\* The poll loop with the timeout test ahead of the sentinel test.
PollOutcome_TimeoutFirst(val, elapsed, timeout) ==
    IF val = U32Zero THEN "done"
    ELSE IF CmdTimedOut(elapsed, timeout) THEN "timeout"
    ELSE IF is_invalid_cmd(val) THEN "invalid"
    ELSE "again"

\* What one iteration of the poll loop decides from the value it read and
\* the time elapsed after the read.
PollOutcome(val, elapsed, timeout) ==
    IF is_invalid_cmd(val) THEN "invalid"
    ELSE IF val = U32Zero THEN "done"
    ELSE IF CmdTimedOut(elapsed, timeout) THEN "timeout"
    ELSE "again"

\* One iteration of the poll loop: the read takes dt.
ExecPollStep(r, dt) ==
    LET now == Adv(clk, dt, Top.a.timeout)
        c1 == [cmd EXCEPT !.reads = Sat(@ + 1), !.polls = Sat(@ + 1), !.lastClk = now]
    IN  /\ At("exec", "poll")
        /\ IF ~r.ok
           THEN /\ ExecReturn(RetErr("I2CError"), [c1 EXCEPT !.lastVal = IoErr])
                /\ clk' = 0
                /\ UNCHANGED lastRaw
           ELSE LET val == FromLeBytes32(ReadBlock(r.raw, 4))
                    c2 == [c1 EXCEPT !.lastVal = val]
                    out == PollOutcome(val, now, Top.a.timeout)
                IN  /\ lastRaw' = r.raw
                    /\ IF out = "invalid"
                       THEN ExecReturn(RetErr("TypecController"), c2) /\ clk' = 0
                       ELSE IF out = "done"
                       THEN \* thread::sleep(res_delay)
                            /\ ExecReturn(RetOk, [c2 EXCEPT !.slept = Top.a.delay])
                            /\ clk' = 0
                       ELSE IF out = "timeout"
                       THEN ExecReturn(RetErr("ControllerTimeout"), c2) /\ clk' = 0
                       ELSE /\ clk' = now
                            /\ cmd' = c2
                            /\ UNCHANGED <<stack, ret, cmdlog>>
        /\ UNCHANGED <<rsClk, compat, exit, mainRes, actionRes, unwinding, wlog, lastMode, rsReadings>>

ExecPoll == \E r \in ReadOutcomes(CmdBufs), dt \in IoTimes : ExecPollStep(r, dt)

(***************************************************************************)
(* read_power_status, get_mode                                             *)
(***************************************************************************)
\* read_power_status; inside reboot_serial's loop the read takes time.
ReadPowerStatus ==
    /\ At("read_power_status", "start")
    /\ \E r \in ReadOutcomes(PowerBufs), dt \in IoTimes :
         /\ IF OnStack("reboot_serial")
            THEN /\ rsClk' = Adv(rsClk, dt, RECONNECT_TIMEOUT)
                 /\ rsReadings' = IF r.ok THEN Append(rsReadings, r.raw[2] % 2 = 1)
                                          ELSE rsReadings
            ELSE dt = 0 /\ UNCHANGED <<rsClk, rsReadings>>
         /\ stack' = Popped
         /\ IF ~r.ok
            THEN ret' = RetErr("I2CError") /\ UNCHANGED lastRaw
            ELSE /\ ret' = RetPs(FromLeBytes16(ReadBlock(r.raw, 2)))
                 /\ lastRaw' = r.raw
    /\ UNCHANGED <<clk, compat, exit, mainRes, actionRes, unwinding, wlog, cmdlog, cmd, lastMode>>

\* The histories start empty in every phase of the run.
NewPhase ==
    /\ wlog' = <<>>
    /\ cmdlog' = <<>>
    /\ cmd' = NoCmd
    /\ rsReadings' = <<>>
    /\ rsClk' = 0

\* A step that starts a phase: it only moves the stack and the result.
PhaseStep(s, r) ==
    /\ stack' = s
    /\ ret' = r
    /\ NewPhase
    /\ lastMode' = NoMode
    /\ lastRaw' = <<>>
    /\ UNCHANGED <<clk, compat, exit, mainRes, actionRes, unwinding>>

\* A panic: the build aborts, or unwinds and drops the Device on the way
\* (a panic while the Device is being dropped ends the process there).
Panic(strategy) ==
    IF strategy = "abort" \/ (OnStack("drop") /\ unwinding)
    THEN /\ exit' = "abort"
         /\ UNCHANGED <<stack, unwinding, wlog, cmdlog, cmd, rsReadings, rsClk>>
    ELSE IF OnStack("drop")
    THEN /\ exit' = "panic"
         /\ UNCHANGED <<stack, unwinding, wlog, cmdlog, cmd, rsReadings, rsClk>>
    ELSE /\ stack' = << Frame("unwind", "after_drop", <<>>), Frame("drop", "start", <<>>) >>
         /\ unwinding' = TRUE
         /\ NewPhase
         /\ UNCHANGED exit

UnwindAfterDrop ==
    /\ At("unwind", "after_drop")
    /\ exit' = "panic"
    /\ UNCHANGED <<stack, ret, clk, rsClk, compat, mainRes, actionRes, unwinding, wlog, cmdlog,
                   cmd, lastMode, lastRaw, rsReadings>>

\* get_mode: read_block, from_utf8(..).unwrap(), TpsMode::from_str
GetModeStep(r, strategy) ==
    LET ModeRead(res) == [phase |-> Phase, res |-> res, by |-> stack[Len(stack) - 1].fn,
                          n |-> lastMode.n + 1, w |-> Len(wlog)]
        quiet == UNCHANGED <<exit, unwinding, wlog, cmdlog, cmd, rsReadings, rsClk>>
    IN  /\ At("get_mode", "start")
        /\ IF ~r.ok
           THEN /\ strategy = "unwind"
                /\ stack' = Popped
                /\ ret' = RetErr("I2CError")
                /\ lastMode' = ModeRead("I2CError")
                /\ UNCHANGED lastRaw
                /\ quiet
           ELSE LET s == ReadBlock(r.raw, 4)
                IN  /\ lastRaw' = r.raw
                    /\ IF ~IsUtf8(s)
                       THEN /\ Panic(strategy)
                            /\ ret' = RetPending
                            /\ lastMode' = ModeRead("panic")
                       ELSE /\ strategy = "unwind"
                            /\ stack' = Popped
                            /\ quiet
                            /\ IF TpsModeFromStr(s) = "Err"
                               THEN /\ ret' = RetErr("TypecController")
                                    /\ lastMode' = ModeRead("Err")
                               ELSE /\ ret' = RetMode(TpsModeFromStr(s))
                                    /\ lastMode' = ModeRead(TpsModeFromStr(s))
        /\ UNCHANGED <<clk, compat, mainRes, actionRes>>

GetMode == \E r \in ReadOutcomes(ModeBufs), strategy \in {"unwind", "abort"} : GetModeStep(r, strategy)

(***************************************************************************)
(* Calls that hand their callee's result on unchanged.                     *)
(***************************************************************************)
\* lock, dfu, reboot, vdms, dven, serial and reboot_serial end with a call
\* whose result is their own.
TailReturn ==
    /\ exit = "running" /\ stack # <<>> /\ Top.pc = "tail"
    /\ stack' = Popped
    /\ UNCHANGED <<ret, clk, rsClk, compat, exit, mainRes, actionRes, unwinding, wlog, cmdlog, cmd,
                   lastMode, lastRaw, rsReadings>>

\* A step that only moves the stack and the result.
StackStep(s, r) ==
    /\ stack' = s
    /\ ret' = r
    /\ UNCHANGED <<clk, rsClk, compat, exit, mainRes, actionRes, unwinding, wlog, cmdlog, cmd,
                   lastMode, lastRaw, rsReadings>>

\* A step that calls exec_cmd_with_timing.
ExecStep(p, tag, data, timeout, delay) ==
    /\ CallExec(p, tag, data, timeout, delay)
    /\ UNCHANGED <<clk, rsClk, compat, exit, mainRes, actionRes, unwinding, wlog,
                   lastMode, lastRaw, rsReadings>>

(***************************************************************************)
(* lock, unlock, dbma_mode, Drop                                           *)
(***************************************************************************)
ZeroKey == <<0, 0, 0, 0>>

LockStart ==
    /\ At("lock", "start")
    /\ ExecStep("tail", TagLOCK, ZeroKey, EXEC_CMD_TIMEOUT, EXEC_CMD_DELAY)

UnlockStart ==
    /\ At("unlock", "start")
    /\ ExecStep("after_lock1", TagLOCK, Top.a.key, EXEC_CMD_TIMEOUT, EXEC_CMD_DELAY)

UnlockAfterLock1 ==
    /\ At("unlock", "after_lock1")
    /\ IF ~ret.ok
       THEN ExecStep("after_gaid", TagGaid, <<>>, EXEC_CMD_TIMEOUT, EXEC_CMD_DELAY)
       ELSE StackStep(Popped, RetOk)

UnlockAfterGaid ==
    /\ At("unlock", "after_gaid")
    /\ IF ~ret.ok
       THEN StackStep(Popped, RetErr("TypecController"))
       ELSE ExecStep("after_lock2", TagLOCK, Top.a.key, EXEC_CMD_TIMEOUT, EXEC_CMD_DELAY)

\* unlock retrying for as long as LOCK fails.
UnlockAfterLock2_RetryAgain ==
    /\ At("unlock", "after_lock2")
    /\ IF ~ret.ok
       THEN ExecStep("after_lock2", TagLOCK, Top.a.key, EXEC_CMD_TIMEOUT, EXEC_CMD_DELAY)
       ELSE StackStep(Popped, RetOk)

UnlockAfterLock2 ==
    /\ At("unlock", "after_lock2")
    /\ StackStep(Popped, IF ret.ok THEN RetOk ELSE ret)

DbmaData(enabled) == IF enabled THEN <<1>> ELSE <<0>>

DbmaStart ==
    /\ At("dbma_mode", "start")
    /\ ExecStep("after_cmd", TagDBMa, DbmaData(Top.a.enabled), EXEC_CMD_TIMEOUT, EXEC_CMD_DELAY)

DbmaAfterCmd ==
    /\ At("dbma_mode", "after_cmd")
    /\ IF ~ret.ok
       THEN StackStep(Popped, ret)
       ELSE StackStep(CallFrom("after_mode", Frame("get_mode", "start", <<>>)), RetPending)

\* get_mode()? != TpsMode::TpsModeDbma
NotDbma(r) == r.mode # "TpsModeDbma"

\* dbma_mode trusting the command: the mode read is not compared.
DbmaAfterMode_NoVerify ==
    /\ At("dbma_mode", "after_mode")
    /\ StackStep(Popped, IF ret.ok THEN RetOk ELSE ret)

DbmaAfterMode ==
    /\ At("dbma_mode", "after_mode")
    /\ IF ~ret.ok
       THEN StackStep(Popped, ret)
       ELSE IF NotDbma(ret)
       THEN StackStep(Popped, RetErr("TypecController"))
       ELSE StackStep(Popped, RetOk)

\* impl Drop for Device
DropStart ==
    /\ At("drop", "start")
    /\ StackStep(CallFrom("after_dbma", Frame("dbma_mode", "start", [enabled |-> FALSE])),
                 RetPending)

DropAfterDbma ==
    /\ At("drop", "after_dbma")
    /\ StackStep(CallFrom("after_lock", Frame("lock", "start", <<>>)), RetPending)

DropAfterLock ==
    /\ At("drop", "after_lock")
    /\ StackStep(Popped, RetOk)

(***************************************************************************)
(* vdms, dven, dfu, reboot, serial, reboot_serial                          *)
(***************************************************************************)
\* The upper bound off by one.
BadVdoCount_OffByOne(vdos) == Len(vdos) = 0 \/ Len(vdos) > 8

\* vdos.is_empty() || vdos.len() > 7
BadVdoCount(vdos) == Len(vdos) = 0 \/ Len(vdos) > 7

VdmsStart ==
    /\ At("vdms", "start")
    /\ IF BadVdoCount(Top.a.vdos)
       THEN StackStep(Popped, RetErr("InvalidArgument"))
       ELSE StackStep(CallFrom("after_mode", Frame("get_mode", "start", <<>>)), RetPending)

VdmsAfterMode ==
    /\ At("vdms", "after_mode")
    /\ IF ~ret.ok
       THEN StackStep(Popped, ret)
       ELSE IF NotDbma(ret)
       THEN StackStep(Popped, RetErr("TypecController"))
       ELSE ExecStep("tail", TagVDMs, VdmData(Top.a.sop, Top.a.vdos), VDMS_TIMEOUT, VDMS_DELAY)

DvenStart ==
    /\ At("dven", "start")
    /\ ExecStep("tail", TagDVEn, DvenData(Top.a.vdos), EXEC_CMD_TIMEOUT, EXEC_CMD_DELAY)

VdmsFrame(sop, vdos) == Frame("vdms", "start", [sop |-> sop, vdos |-> vdos])

DfuStart ==
    /\ At("dfu", "start")
    /\ StackStep(CallFrom("tail", VdmsFrame(SopStar, DfuVdos)), RetPending)

RebootStart ==
    /\ At("reboot", "start")
    /\ StackStep(CallFrom("tail", VdmsFrame(SopStar, RebootVdos)), RetPending)

SerialStart ==
    /\ At("serial", "start")
    /\ StackStep(CallFrom("after_vdms", VdmsFrame(SopStar, SerialVdos)), RetPending)

\* serial going on after a failed VDM.
SerialAfterVdms_IgnoreError ==
    /\ At("serial", "after_vdms")
    /\ StackStep(CallFrom("after_mode", Frame("get_mode", "start", <<>>)), RetPending)

SerialAfterVdms ==
    /\ At("serial", "after_vdms")
    /\ IF ~ret.ok
       THEN StackStep(Popped, ret)
       ELSE StackStep(CallFrom("after_mode", Frame("get_mode", "start", <<>>)), RetPending)

SerialAfterMode ==
    /\ At("serial", "after_mode")
    /\ IF ~ret.ok
       THEN StackStep(Popped, ret)
       ELSE IF NotDbma(ret)
       THEN StackStep(Popped, RetErr("TypecController"))
       ELSE StackStep(CallFrom("tail", Frame("dven", "start", [vdos |-> SubSeq(SerialVdos, 2, 2)])),
                      RetPending)

RsStart ==
    /\ At("reboot_serial", "start")
    /\ StackStep(CallFrom("after_reboot", Frame("reboot", "start", <<>>)), RetPending)

\* Bit 1 (the role) taken for the connected bit.
Connected_Bit1(ps) == (ps \div 2) % 2 # 0

\* power_status & 1 != 0
Connected(ps) == ps % 2 # 0

\* now.elapsed() > RECONNECT_TIMEOUT
ReconnectTimedOut(elapsed) == elapsed > RECONNECT_TIMEOUT

\* self.reboot()?; sleep(RECONNECT_WAIT); now = Instant::now(); first read
RsAfterReboot ==
    /\ At("reboot_serial", "after_reboot")
    /\ IF ~ret.ok
       THEN stack' = Popped /\ ret' = ret
       ELSE /\ stack' = CallFrom("after_power", Frame("read_power_status", "start", <<>>))
            /\ ret' = RetPending
    /\ rsClk' = 0
    /\ rsReadings' = <<>>
    /\ UNCHANGED <<clk, compat, exit, mainRes, actionRes, unwinding, wlog, cmdlog, cmd, lastMode, lastRaw>>

\* The rest of one iteration of the reconnect loop, after its read.
RsAfterPower ==
    /\ At("reboot_serial", "after_power")
    /\ IF ~ret.ok
       THEN /\ stack' = Popped
            /\ ret' = ret
            /\ UNCHANGED rsClk
       ELSE IF Connected(ret.ps)
       THEN \* break; sleep(RECONNECT_WAIT); self.serial()
            /\ stack' = CallFrom("tail", Frame("serial", "start", <<>>))
            /\ ret' = RetPending
            /\ UNCHANGED rsClk
       ELSE \* sleep(POLL_WAIT), then the timeout check
            LET now == Adv(rsClk, POLL_WAIT, RECONNECT_TIMEOUT)
            IN  /\ rsClk' = now
                /\ IF ReconnectTimedOut(now)
                   THEN stack' = Popped /\ ret' = RetErr("ReconnectTimeout")
                   ELSE /\ stack' = CallFrom("after_power",
                                             Frame("read_power_status", "start", <<>>))
                        /\ ret' = RetPending
    /\ UNCHANGED <<clk, compat, exit, mainRes, actionRes, unwinding, wlog, cmdlog, cmd, lastMode,
                   lastRaw, rsReadings>>

(***************************************************************************)
(* Device::new                                                             *)
(***************************************************************************)
\* An early return of new once the Device exists: the Device is dropped,
\* then the error is returned.
NewFailWith(a, e) ==
    PhaseStep(Append(SetTop("dropped", [a EXCEPT !.err = e]), Frame("drop", "start", <<>>)),
              RetPending)

NewFail(e) == NewFailWith(Top.a, e)

\* create_backend, init, get_unlock_key, then the Device is built; ps is
\* the local power_status, -1 until it is read.
NewBackend ==
    /\ At("new", "start")
    /\ \E ok \in BOOLEAN :
         IF ~ok
         THEN StackStep(Popped, RetErr("I2CError"))
         ELSE StackStep(Append(SetTop("after_power", [key |-> GetUnlockKey(compat), err |-> "none",
                                                       ps |-> -1]),
                               Frame("read_power_status", "start", <<>>)),
                        RetPending)

NewAfterPower ==
    /\ At("new", "after_power")
    /\ IF ~ret.ok
       THEN NewFail(ret.err)
       ELSE IF ~Connected(ret.ps)
       THEN NewFailWith([Top.a EXCEPT !.ps = ret.ps], "NoCableConnected")
       ELSE StackStep(Append(SetTop("after_mode", [Top.a EXCEPT !.ps = ret.ps]),
                             Frame("get_mode", "start", <<>>)),
                      RetPending)

\* Device::new running the handshake whatever the mode read returned.
NewAfterMode_AlwaysHandshake ==
    /\ At("new", "after_mode")
    /\ IF ~ret.ok
       THEN NewFail(ret.err)
       ELSE StackStep(CallFrom("after_unlock", Frame("unlock", "start", [key |-> Top.a.key])),
                      RetPending)

NewAfterMode ==
    /\ At("new", "after_mode")
    /\ IF ~ret.ok
       THEN NewFail(ret.err)
       ELSE IF NotDbma(ret)
       THEN StackStep(CallFrom("after_unlock", Frame("unlock", "start", [key |-> Top.a.key])),
                      RetPending)
       ELSE StackStep(Popped, RetOk)

NewAfterUnlock ==
    /\ At("new", "after_unlock")
    /\ IF ~ret.ok
       THEN NewFail(ret.err)
       ELSE StackStep(CallFrom("after_dbma", Frame("dbma_mode", "start", [enabled |-> TRUE])),
                      RetPending)

NewAfterDbma ==
    /\ At("new", "after_dbma")
    /\ IF ~ret.ok
       THEN NewFail(ret.err)
       ELSE StackStep(Popped, RetOk)

NewDropped ==
    /\ At("new", "dropped")
    /\ StackStep(Popped, RetErr(Top.a.err))

(***************************************************************************)
(* vdmtool (main)                                                          *)
(***************************************************************************)
Subcommands == {"dfu", "reboot", "reboot_serial", "serial", "nop"}

\* The process ends with vdmtool's result e.
Exit(e) ==
    /\ mainRes' = e
    /\ exit' = IF e = "ok" THEN "success" ELSE "failure"

\* The host check, then Device::new
MainStart ==
    /\ At("main", "start")
    /\ IF SplitIndex(compat) = 0 \/ Manufacturer(compat) # StrApple
       THEN Exit("Compatible") /\ UNCHANGED <<stack, ret>>
       ELSE /\ stack' = CallFrom("after_new", Frame("new", "start", <<>>))
            /\ ret' = RetPending
            /\ UNCHANGED <<exit, mainRes>>
    /\ UNCHANGED <<clk, rsClk, compat, actionRes, unwinding, wlog, cmdlog, cmd, lastMode, lastRaw,
                   rsReadings>>

\* Device::new(..)?, then the subcommand; "nop" runs nothing and returns Ok
MainAfterNew ==
    /\ At("main", "after_new")
    /\ IF ~ret.ok
       THEN /\ Exit(ret.err)
            /\ UNCHANGED <<stack, ret, clk, rsClk, compat, actionRes, unwinding, wlog, cmdlog,
                           cmd, lastMode, lastRaw, rsReadings>>
       ELSE \E sub \in Subcommands :
              PhaseStep(Append(SetTop("after_action", [sub |-> sub]), Frame(sub, "start", <<>>)),
                        RetPending)

\* Some(("nop", _)) => {}
NopStart ==
    /\ At("nop", "start")
    /\ StackStep(Popped, RetOk)

\* The result of the subcommand
ActionResult(r) == ResOf(r)

\* The subcommand returned: vdmtool returns its result; the Device is
\* dropped on the way out.
MainAfterAction ==
    /\ At("main", "after_action")
    /\ stack' = Append(SetTop("after_drop", [sub |-> Top.a.sub, res |-> ActionResult(ret)]),
                       Frame("drop", "start", <<>>))
    /\ ret' = RetPending
    /\ actionRes' = ResOf(ret)
    /\ NewPhase
    /\ lastMode' = NoMode
    /\ lastRaw' = <<>>
    /\ UNCHANGED <<clk, compat, exit, mainRes, unwinding>>

MainAfterDrop ==
    /\ At("main", "after_drop")
    /\ Exit(Top.a.res)
    /\ UNCHANGED <<stack, ret, clk, rsClk, compat, actionRes, unwinding, wlog, cmdlog, cmd,
                   lastMode, lastRaw, rsReadings>>

(***************************************************************************)
(* The program.                                                            *)
(***************************************************************************)
Next ==
    \/ MainStart \/ MainAfterNew \/ MainAfterAction \/ MainAfterDrop
    \/ NewBackend \/ NewAfterPower \/ NewAfterMode \/ NewAfterUnlock \/ NewAfterDbma
    \/ NewDropped
    \/ UnlockStart \/ UnlockAfterLock1 \/ UnlockAfterGaid \/ UnlockAfterLock2
    \/ LockStart \/ DbmaStart \/ DbmaAfterCmd \/ DbmaAfterMode
    \/ DropStart \/ DropAfterDbma \/ DropAfterLock
    \/ DfuStart \/ RebootStart \/ SerialStart \/ SerialAfterVdms \/ SerialAfterMode
    \/ RsStart \/ RsAfterReboot \/ RsAfterPower
    \/ VdmsStart \/ VdmsAfterMode \/ DvenStart
    \/ ExecBusyCheck \/ ExecWriteData \/ ExecWriteTag \/ ExecPoll
    \/ ReadPowerStatus \/ GetMode \/ UnwindAfterDrop
    \/ TailReturn \/ NopStart

Spec == Init /\ [][Next]_vars

(***************************************************************************)
(* Unit specifications: one call of exec_cmd_with_timing, one call of      *)
(* vdms, on a Device whose backend is the environment above.               *)
(***************************************************************************)
AppleCompat == StrApple \o <<Comma, 106, 51, 49, 52>>

\* The commands the program issues: tag, payload, timeout, settle delay.
ExecCalls ==
    { <<TagLOCK, GetUnlockKey(AppleCompat), EXEC_CMD_TIMEOUT, EXEC_CMD_DELAY>>,
      <<TagLOCK, ZeroKey, EXEC_CMD_TIMEOUT, EXEC_CMD_DELAY>>,
      <<TagGaid, <<>>, EXEC_CMD_TIMEOUT, EXEC_CMD_DELAY>>,
      <<TagDBMa, DbmaData(TRUE), EXEC_CMD_TIMEOUT, EXEC_CMD_DELAY>>,
      <<TagDBMa, DbmaData(FALSE), EXEC_CMD_TIMEOUT, EXEC_CMD_DELAY>>,
      <<TagDVEn, DvenData(SubSeq(SerialVdos, 2, 2)), EXEC_CMD_TIMEOUT, EXEC_CMD_DELAY>>,
      <<TagVDMs, VdmData(SopStar, DfuVdos), VDMS_TIMEOUT, VDMS_DELAY>>,
      <<TagVDMs, VdmData(SopStar, RebootVdos), VDMS_TIMEOUT, VDMS_DELAY>>,
      <<TagVDMs, VdmData(SopStar, SerialVdos), VDMS_TIMEOUT, VDMS_DELAY>> }

\* Vendor data object lists of every length 0..MaxVdos, and the program's.
VdoLists ==
    { [i \in 1..n |-> <<0, 262>>] : n \in 0..MaxVdos } \cup { DfuVdos, RebootVdos, SerialVdos }

InitRest ==
    /\ ret = RetPending
    /\ clk = 0
    /\ rsClk = 0
    /\ compat = AppleCompat
    /\ exit = "running"
    /\ mainRes = "none"
    /\ actionRes = "none"
    /\ unwinding = FALSE
    /\ wlog = <<>>
    /\ lastMode = NoMode
    /\ lastRaw = <<>>
    /\ rsReadings = <<>>

InitExec ==
    /\ \E c \in ExecCalls :
         /\ stack = << Frame("test", "after_call", [call |-> c]),
                       ExecFrame(c[1], c[2], c[3], c[4]) >>
         /\ cmdlog = << [tag |-> c[1], data |-> c[2], by |-> "test", phase |-> "action",
                         res |-> "pending"] >>
         /\ cmd = [NoCmd EXCEPT !.tag = c[1], !.data = c[2], !.timeout = c[3],
                                !.delay = c[4], !.res = "pending"]
    /\ InitRest

InitVdms ==
    /\ \E sop \in {Sop, SopPrime, SopPrimePrime, SopStar}, vdos \in VdoLists :
         stack = << Frame("test", "after_call", [sop |-> sop, vdos |-> vdos]),
                    VdmsFrame(sop, vdos) >>
    /\ cmdlog = <<>>
    /\ cmd = NoCmd
    /\ InitRest

\* The call under test returned.
TestReturn ==
    /\ At("test", "after_call")
    /\ exit' = "returned"
    /\ actionRes' = ResOf(ret)
    /\ UNCHANGED <<stack, ret, clk, rsClk, compat, mainRes, unwinding, wlog, cmdlog, cmd,
                   lastMode, lastRaw, rsReadings>>

NextExec ==
    \/ ExecBusyCheck \/ ExecWriteData \/ ExecWriteTag \/ ExecPoll \/ TestReturn

NextVdms ==
    \/ VdmsStart \/ VdmsAfterMode \/ GetMode \/ TailReturn \/ TestReturn
    \/ ExecBusyCheck \/ ExecWriteData \/ ExecWriteTag \/ ExecPoll
    \/ UnwindAfterDrop \/ DropStart \/ DropAfterDbma \/ DropAfterLock
    \/ DbmaStart \/ DbmaAfterCmd \/ DbmaAfterMode \/ LockStart

SpecExec == InitExec /\ [][NextExec]_vars

SpecVdms == InitVdms /\ [][NextVdms]_vars

\* A poll iteration whose read takes time: wall-clock time advances.
PollTimeAdvances ==
    \E r \in ReadOutcomes(CmdBufs), dt \in IoTimes \ {0} : ExecPollStep(r, dt)

\* The thread keeps running, and reading a register takes time.
FairSpecExec == SpecExec /\ WF_vars(NextExec) /\ WF_vars(PollTimeAdvances)

(***************************************************************************)
(* The claims.                                                             *)
(***************************************************************************)
Polling == At("exec", "poll")

\* A value of CMD1 that is neither zero nor the sentinel 0x444d4321.
BusyValue(v) == v # <<>> /\ v # IoErr /\ v # <<0, 0>> /\ v # <<17485, 17185>>

\* C1: a command whose first read of CMD1 returns a value that is nonzero
\* and not 0x444d4321 has failed with TypecController, after that single
\* read of CMD1 and without any write to DATA1 or CMD1.
C1_BusyCheckFailsAtOnce ==
    BusyValue(cmd.first) =>
        /\ cmd.res = "TypecController"
        /\ cmdlog[Len(cmdlog)].res = "TypecController"
        /\ ~(stack # <<>> /\ Top.fn = "exec")
        /\ cmd.reads = 1
        /\ cmd.dataW = 0 /\ cmd.tagW = 0
        /\ Len(wlog) = cmd.w0

C1_Witness ==
    /\ cmd.first = <<0, 1>>
    /\ cmd.res = "TypecController"
    /\ cmd.data # <<>>
    /\ ret = RetErr("TypecController")

\* C2: a command that polls stops polling (when time advances with the
\* reads); once a poll has read a value that is neither zero nor the
\* sentinel, the command is still polling within the timeout or has failed
\* with ControllerTimeout, the elapsed time then exceeding the timeout.
C2_PollingEndsInTimeout ==
    /\ Polling ~> ~Polling
    /\ [](BusyValue(cmd.lastVal) =>
            IF Polling
            THEN cmd.res = "pending" /\ cmd.lastClk <= cmd.timeout
            ELSE cmd.res = "ControllerTimeout" /\ cmd.lastClk > cmd.timeout)

C2_Witness ==
    /\ exit = "returned"
    /\ actionRes = "ControllerTimeout"
    /\ BusyValue(cmd.lastVal)
    /\ cmd.timeout = 200
    /\ cmd.polls >= 2

\* C3: a poll that reads the sentinel 0x444d4321 ends the command with
\* TypecController, whatever the elapsed time and the reads before it.
C3_SentinelIsProtocolError ==
    cmd.lastVal = <<17485, 17185>> =>
        /\ cmd.res = "TypecController"
        /\ cmdlog[Len(cmdlog)].res = "TypecController"
        /\ ~Polling

C3_Witness ==
    /\ cmd.lastVal = <<17485, 17185>>
    /\ cmd.lastClk > cmd.timeout
    /\ cmd.polls >= 2
    /\ cmd.res = "TypecController"


Last(q) == q[Len(q)]
Failed(res) == res \notin {"ok", "pending"}

\* The commands unlock has issued (session open is the only phase with any).
UnlockLog == SelectSeq(cmdlog, LAMBDA e : e.by = "unlock")

\* C4: unlock issues LOCK with the key; if that fails, Gaid with an empty
\* payload; if Gaid succeeds, LOCK with the key once more, and nothing after
\* it.  It returns Ok exactly when the first LOCK, or Gaid and the second
\* LOCK, succeeded, and session open returns a Device only then.
C4_UnlockRetriesOnce ==
    LET U == UnlockLog
        n == Len(U)
    IN  /\ n <= 3
        /\ Cardinality({ i \in 1..n : U[i].tag = <<76, 79, 67, 75>> }) <= 2
        /\ n >= 1 => U[1].tag = <<76, 79, 67, 75>> /\ U[1].data = GetUnlockKey(compat)
        /\ n >= 2 => Failed(U[1].res) /\ U[2].tag = <<71, 97, 105, 100>> /\ U[2].data = <<>>
        /\ n >= 3 => U[2].res = "ok" /\ U[3].tag = <<76, 79, 67, 75>> /\ U[3].data = U[1].data
        /\ At("new", "after_unlock") =>
             /\ ret.ok <=> (n = 1 /\ U[1].res = "ok") \/ (n = 3 /\ U[3].res = "ok")
             /\ Failed(U[1].res) => n >= 2
             /\ n >= 2 /\ U[2].res = "ok" => n = 3
        /\ At("main", "after_new") /\ ret.ok /\ n >= 1 => U[n].tag = <<76, 79, 67, 75>> /\ U[n].res = "ok"

C4_Witness ==
    /\ At("main", "after_new") /\ ret.ok
    /\ Len(UnlockLog) = 3
    /\ Failed(UnlockLog[1].res) /\ UnlockLog[2].res = "ok" /\ UnlockLog[3].res = "ok"

\* The outcomes of get_mode that are a decoded mode other than Debug, or a
\* tag that names no mode.
OtherThanDebug == {"TpsModeApp", "TpsModeBoot", "TpsModeBist", "TpsModeDisc", "TpsModePtch", "Err"}

\* C5: when DBMa [1] completed successfully and the mode read after it
\* decoded to anything other than Debug, dbma_mode returns TypecController;
\* session open returns a Device only if the last mode read of the open
\* reported Debug.
C5_DebugTransitionVerified ==
    /\ ( /\ At("new", "after_dbma")
         /\ Last(cmdlog).tag = <<68, 66, 77, 97>> /\ Last(cmdlog).data = <<1>>
         /\ Last(cmdlog).res = "ok"
         /\ lastMode.res \in OtherThanDebug )
       => ret = RetErr("TypecController")
    /\ At("main", "after_new") /\ ret.ok
       => lastMode.phase = "open" /\ lastMode.res = "TpsModeDbma"

C5_Witness ==
    /\ At("new", "after_dbma")
    /\ Last(cmdlog).tag = <<68, 66, 77, 97>> /\ Last(cmdlog).data = <<1>> /\ Last(cmdlog).res = "ok"
    /\ lastMode.res = "TpsModeApp" /\ lastMode.by = "dbma_mode"
    /\ ret = RetErr("TypecController")

\* C6: once the subcommand has returned, teardown issues DBMa [0] and then
\* LOCK [0, 0, 0, 0], each once, and the process ends with the subcommand's
\* own result.
C6_TeardownCompletes ==
    actionRes # "none" =>
        /\ Len(cmdlog) <= 2
        /\ Len(cmdlog) >= 1 => cmdlog[1].tag = <<68, 66, 77, 97>> /\ cmdlog[1].data = <<0>>
        /\ Len(cmdlog) = 2 => cmdlog[2].tag = <<76, 79, 67, 75>> /\ cmdlog[2].data = <<0, 0, 0, 0>>
        /\ exit # "running" =>
             /\ Len(cmdlog) = 2
             /\ exit = (IF actionRes = "ok" THEN "success" ELSE "failure")
             /\ mainRes = actionRes

\* C6 on the runs in which get_mode does not panic during teardown.
C6_TeardownCompletesUnlessPanic ==
    exit \in {"panic", "abort"} \/ C6_TeardownCompletes

\* C7: a call of vdms with no vendor data object or with more than seven
\* returns InvalidArgument, and no backend read or write is made.
C7_BadCountRejectedBeforeIo ==
    (stack[1].fn = "test" /\ (Len(stack[1].a.vdos) = 0 \/ Len(stack[1].a.vdos) > 7)) =>
        /\ wlog = <<>> /\ cmdlog = <<>> /\ cmd = NoCmd
        /\ lastMode = NoMode /\ lastRaw = <<>>
        /\ Len(stack) = 1 => ret = RetErr("InvalidArgument")
        /\ exit # "running" => exit = "returned" /\ actionRes = "InvalidArgument"

C7_Witness ==
    /\ stack[1].fn = "test" /\ Len(stack[1].a.vdos) = 8
    /\ exit = "returned" /\ actionRes = "InvalidArgument"

\* C8: a dispatch whose mode read does not decode to Debug is rejected with
\* TypecController, with nothing written and no second mode read; a VDMs
\* command is in progress only after a mode read by vdms that returned Debug.
C8_VdmsGatedOnDebug ==
    /\ (lastMode.by = "vdms" /\ lastMode.res \notin {"TpsModeDbma", "I2CError"}) =>
          /\ exit = "running" /\ ~unwinding
          /\ Len(wlog) = lastMode.w
          /\ ~At("get_mode", "start")
          /\ At("vdms", "after_mode") \/ ret = RetErr("TypecController")
    /\ (cmd.tag = <<86, 68, 77, 115>> /\ cmd.res = "pending") =>
          lastMode.by = "vdms" /\ lastMode.res = "TpsModeDbma"

\* C8 on the mode reads that decode to a mode or to an unknown tag.
C8_VdmsGatedUnlessPanic ==
    /\ (lastMode.by = "vdms" /\ lastMode.res \in OtherThanDebug) =>
          /\ exit = "running"
          /\ Len(wlog) = lastMode.w
          /\ ~At("get_mode", "start")
          /\ At("vdms", "after_mode") \/ ret = RetErr("TypecController")
    /\ (cmd.tag = <<86, 68, 77, 115>> /\ cmd.res = "pending") =>
          lastMode.by = "vdms" /\ lastMode.res = "TpsModeDbma"

\* The subcommand dfu is running or has just returned.
InDfu == stack # <<>> /\ stack[1].fn = "main" /\ stack[1].pc = "after_action"
         /\ stack[1].a.sub = "dfu"

\* 0x33, then 0x5ac8012, 0x106, 0x80010000 in little-endian bytes
DfuPayload == <<51, 18, 128, 172, 5, 6, 1, 0, 0, 0, 0, 1, 128>>

\* C9: dfu writes at most one payload to DATA1, which is 0x33 followed by
\* the little-endian bytes of 0x5ac8012, 0x106, 0x80010000, and then at most
\* one tag, "VDMs", to CMD1; when the mode read reported Debug and the busy
\* check passed, the payload is written, and the tag once that write
\* succeeded.
C9_DfuSendsOneVdm ==
    InDfu =>
        /\ Len(wlog) <= 2
        /\ Len(wlog) >= 1 => wlog[1].reg = 9 /\ Tail(wlog[1].buf) = DfuPayload
        /\ Len(wlog) = 2 => wlog[1].ok /\ wlog[2].reg = 8 /\ Tail(wlog[2].buf) = <<86, 68, 77, 115>>
        /\ ( /\ Top.fn = "main"
             /\ lastMode.res = "TpsModeDbma"
             /\ cmd.first \in {<<0, 0>>, <<17485, 17185>>} )
           => Len(wlog) >= 1 /\ (wlog[1].ok => Len(wlog) = 2)

C9_Witness ==
    /\ InDfu /\ Top.fn = "main" /\ ret.ok
    /\ Len(wlog) = 2 /\ wlog[1].ok /\ wlog[2].ok
    /\ Tail(wlog[1].buf) = DfuPayload

RsPc == LET i == CHOOSE i \in 1..Len(stack) : stack[i].fn = "reboot_serial" IN stack[i].pc

\* C10: when the reconnect loop has read disconnected, disconnected,
\* connected, it has ended after these three reads and called serial; it
\* reads again only after disconnected readings and within
\* RECONNECT_TIMEOUT; it returns ReconnectTimeout only after disconnected
\* readings, past RECONNECT_TIMEOUT, and after at most 31 reads.
C10_ReconnectPolling ==
    LET n == Len(rsReadings)
        AllDisconnected == \A i \in 1..n : ~rsReadings[i]
    IN  /\ (n >= 3 /\ SubSeq(rsReadings, 1, 3) = <<FALSE, FALSE, TRUE>>) =>
              /\ n = 3
              /\ ret.err # "ReconnectTimeout"
              /\ OnStack("reboot_serial") => (RsPc = "tail" \/ At("reboot_serial", "after_power"))
        /\ n <= 31
        /\ At("read_power_status", "start") /\ OnStack("reboot_serial") =>
              AllDisconnected /\ rsClk <= 3000
        /\ ret.err = "ReconnectTimeout" =>
              AllDisconnected /\ rsClk > 3000 /\ n >= 1

C10_Witness ==
    /\ rsReadings = <<FALSE, FALSE, TRUE>>
    /\ OnStack("reboot_serial") /\ RsPc = "tail" /\ OnStack("serial")


(***************************************************************************)
(* Unit specification: write_block of a payload, then read_block of as     *)
(* many bytes from a backend that answers with the bytes just written or   *)
(* with the same bytes under another length byte.                          *)
(***************************************************************************)
BlockBytes == {0, 65, 255}

RECURSIVE SeqsUpTo(_, _)
SeqsUpTo(S, n) ==
    IF n = 0 THEN { <<>> }
    ELSE LET shorter == SeqsUpTo(S, n - 1)
         IN  shorter \cup { Append(q, b) : q \in { q \in shorter : Len(q) = n - 1 }, b \in S }

\* Every payload of up to MaxPayload bytes, and one of the greatest length
\* a length byte can declare.
Payloads == SeqsUpTo(BlockBytes, MaxPayload) \cup { [i \in 1..255 |-> 0] }

\* What the backend can fill the buffer with when the framed bytes b were
\* written: b, or b with another length byte.
FramedAnswers(b) == { b, [b EXCEPT ![1] = 0], [b EXCEPT ![1] = (b[1] + 1) % 256] }

InitBlock ==
    /\ \E reg \in {TPS_REG_DATA1, TPS_REG_CMD1}, payload \in Payloads :
         stack = << Frame("block", "write", [reg |-> reg, payload |-> payload, out |-> <<>>]) >>
    /\ cmdlog = <<>>
    /\ cmd = NoCmd
    /\ InitRest

\* self.write_block(reg, payload)
BlockWrite ==
    /\ At("block", "write")
    /\ \E ok \in BOOLEAN :
         /\ wlog' = Append(wlog, [reg |-> Top.a.reg, buf |-> WriteBlock(Top.a.payload),
                                  ok |-> ok, phase |-> "action"])
         /\ stack' = SetPc(IF ok THEN "read" ELSE "done")
         /\ ret' = IF ok THEN RetPending ELSE RetErr("I2CError")
    /\ UNCHANGED <<clk, rsClk, compat, exit, mainRes, actionRes, unwinding, cmdlog, cmd,
                   lastMode, lastRaw, rsReadings>>

\* self.read_block(reg, &mut buf) with buf.len() = payload.len()
BlockRead ==
    /\ At("block", "read")
    /\ \E r \in ReadOutcomes(FramedAnswers(wlog[1].buf)) :
         IF ~r.ok
         THEN /\ stack' = SetPc("done")
              /\ ret' = RetErr("I2CError")
              /\ UNCHANGED lastRaw
         ELSE /\ stack' = SetTop("done", [Top.a EXCEPT !.out = ReadBlock(r.raw, Len(Top.a.payload))])
              /\ ret' = RetOk
              /\ lastRaw' = r.raw
    /\ UNCHANGED <<clk, rsClk, compat, exit, mainRes, actionRes, unwinding, wlog, cmdlog, cmd,
                   lastMode, rsReadings>>

NextBlock == BlockWrite \/ BlockRead

SpecBlock == InitBlock /\ [][NextBlock]_vars

\* C11: write_block hands the backend [len(payload)] ++ payload, and
\* read_block applied to exactly those bytes returns the payload.
C11_BlockRoundTrip ==
    stack[1].fn = "block" =>
        LET payload == stack[1].a.payload
        IN  /\ wlog # <<>> =>
                 /\ Len(wlog) = 1
                 /\ wlog[1].buf[1] = Len(payload)
                 /\ Len(wlog[1].buf) = Len(payload) + 1
                 /\ \A i \in 1..Len(payload) : wlog[1].buf[i + 1] = payload[i]
            /\ (At("block", "done") /\ ret.ok /\ lastRaw = wlog[1].buf) =>
                 stack[1].a.out = payload

C11_Witness ==
    /\ At("block", "done") /\ ret.ok /\ lastRaw = wlog[1].buf
    /\ Len(Top.a.payload) = 255 /\ wlog[1].buf[1] = 255
    /\ Top.a.out = Top.a.payload


\* The frame of Device::new while it is on the stack.
NewFrame == stack[CHOOSE i \in 1..Len(stack) : stack[i].fn = "new"]

\* The power status read at open has bit 0 clear.
OpenSawNoCable ==
    /\ OnStack("new") /\ NewFrame.pc # "start"
    /\ NewFrame.a.ps >= 0 /\ NewFrame.a.ps % 2 = 0

\* A command of the handshake: LOCK with a key other than the zero key, or
\* DBMa with [1].
HandshakeCommand(e) ==
    \/ e.tag = <<76, 79, 67, 75>> /\ e.data # <<0, 0, 0, 0>>
    \/ e.tag = <<68, 66, 77, 97>> /\ e.data = <<1>>

\* C12: once the power status read at open has bit 0 clear, open is
\* failing with NoCableConnected, the mode register is not read, and
\* neither LOCK with the key nor DBMa [1] is issued.
C12_NoCableNoHandshake ==
    OpenSawNoCable =>
        /\ exit = "running"
        /\ NewFrame.pc = "dropped" /\ NewFrame.a.err = "NoCableConnected"
        /\ lastMode = NoMode
        /\ \A i \in 1..Len(cmdlog) : ~HandshakeCommand(cmdlog[i])

\* C12 with the teardown of the failed open set apart: the only mode read
\* is the one dbma_mode(false) makes in Drop, and the only other end is
\* the panic of that read.
C12_NoHandshakeBeforeTeardown ==
    OpenSawNoCable =>
        /\ exit \in {"running", "panic", "abort"}
        /\ exit # "running" => lastMode.res = "panic"
        /\ NewFrame.pc = "dropped" /\ NewFrame.a.err = "NoCableConnected"
        /\ lastMode # NoMode => lastMode.phase = "teardown" /\ lastMode.by = "dbma_mode"
        /\ \A i \in 1..Len(cmdlog) : ~HandshakeCommand(cmdlog[i])


\* C13: a command that ended in a transport error is the last command of
\* its operation; when the first LOCK of unlock ends in a transport error,
\* unlock issues nothing more and session open fails with that error.
C13_TransportErrorNotRetried ==
    LET U == UnlockLog
    IN  /\ (Len(U) >= 1 /\ U[1].res = "I2CError") => Len(U) = 1
        /\ (At("new", "after_unlock") /\ Len(U) >= 1 /\ U[1].res = "I2CError") =>
              ret = RetErr("I2CError")
        /\ \A i \in 1..Len(U) : U[i].res = "I2CError" => i = Len(U)

\* What the code does with a transport error in unlock: it is retried
\* like any other failure, and reported as the error of the retry.
C13_TransportErrorRetriedOnce ==
    LET U == UnlockLog
    IN  /\ (Len(U) >= 2 /\ U[1].res = "I2CError") =>
              U[2].tag = <<71, 97, 105, 100>> /\ U[2].data = <<>>
        /\ (At("new", "after_unlock") /\ Len(U) = 2 /\ Failed(U[2].res)) =>
              ret = RetErr("TypecController")
        /\ (At("new", "after_unlock") /\ Len(U) >= 1 /\ U[1].res = "I2CError") => Len(U) >= 2


\* The mode read Device::new makes at open returned Debug.
OpenSawDebug ==
    lastMode.phase = "open" /\ lastMode.by = "new" /\ lastMode.res = "TpsModeDbma"

\* C14: when the mode read at open returned Debug, open issues no command
\* and writes no register, and it returns a Device.
C14_DebugAtOpenSkipsHandshake ==
    OpenSawDebug =>
        /\ cmdlog = <<>> /\ cmd = NoCmd
        /\ wlog = <<>>
        /\ exit = "running"
        /\ At("new", "after_mode") \/ (At("main", "after_new") /\ ret = RetOk)
        /\ OnStack("new") => Connected(NewFrame.a.ps)

C14_Witness ==
    /\ OpenSawDebug
    /\ At("main", "after_new") /\ ret = RetOk
    /\ cmdlog = <<>> /\ wlog = <<>>


\* The writes of the command in progress, or of the latest command.
CmdWrites == SubSeq(wlog, cmd.w0 + 1, Len(wlog))

\* C15: within one command, nothing is written before the busy-check read;
\* a non-empty payload is written to DATA1 once, before the single write of
\* the tag to CMD1, an empty payload is not written; CMD1 is polled only
\* after the tag was written; Ok is returned only after a poll read zero,
\* and after the settle delay.
C15_CommandStepsInOrder ==
    cmd.res # "none" =>
        LET W == CmdWrites
        IN  /\ cmd.first = <<>> => W = <<>> /\ cmd.reads = 0
            /\ cmd.reads = 0 => W = <<>>
            /\ cmd.dataW <= 1 /\ cmd.tagW <= 1
            /\ Len(W) = cmd.dataW + cmd.tagW
            /\ cmd.data = <<>> => cmd.dataW = 0
            /\ cmd.dataW = 1 => W[1].reg = 9 /\ Tail(W[1].buf) = cmd.data
            /\ cmd.tagW = 1 =>
                  /\ W[Len(W)].reg = 8 /\ Tail(W[Len(W)].buf) = cmd.tag
                  /\ cmd.data # <<>> => Len(W) = 2 /\ W[1].ok
            /\ \A i \in 1..Len(W) : W[i].reg = 9 => i = 1 /\ cmd.data # <<>>
            /\ cmd.polls > 0 => cmd.tagW = 1 /\ W[Len(W)].ok
            /\ At("exec", "poll") => cmd.tagW = 1 /\ W[Len(W)].ok
            /\ cmd.res = "ok" =>
                  /\ cmd.polls > 0 /\ cmd.lastVal = <<0, 0>>
                  /\ cmd.slept = cmd.delay

C15_Witness ==
    /\ cmd.res = "ok" /\ cmd.tag = <<86, 68, 77, 115>>
    /\ cmd.polls > 1 /\ cmd.slept = 200
    /\ Len(CmdWrites) = 2 /\ CmdWrites[1].reg = 9 /\ CmdWrites[2].reg = 8

C15_WitnessEmptyPayload ==
    /\ cmd.res = "ok" /\ cmd.data = <<>>
    /\ Len(CmdWrites) = 1 /\ CmdWrites[1].reg = 8


\* The subcommand sub is running or has just returned.
InSub(sub) == stack # <<>> /\ stack[1].fn = "main" /\ stack[1].pc = "after_action"
              /\ stack[1].a.sub = sub

\* The VDMs command carrying the objects vdos, and the DVEn command of
\* serial mode.
IsVdm(e, vdos) == e.tag = <<86, 68, 77, 115>> /\ e.data = VdmData(3, vdos)
IsSerialDven(e) == e.tag = <<68, 86, 69, 110>> /\ e.data = <<6, 3, 132, 1>>

\* The objects of the reboot VDM and of the serial VDM.
RebootObjects == << <<1452, 32786>>, <<0, 261>>, <<32768, 0>> >>
SerialObjects == << <<1452, 32786>>, <<388, 774>> >>

\* C16: reboot-then-serial issues the reboot VDM once; the serial VDM only
\* after the reboot VDM succeeded and the latest power-status read showed
\* the connected bit; DVEn only after the serial VDM succeeded and a mode
\* read by serial returned Debug.  When the reboot VDM fails or the wait
\* times out, the action fails with nothing but the reboot VDM issued.
C16_SerialAfterRebootAndReconnect ==
    /\ InSub("reboot_serial") =>
          /\ Len(cmdlog) <= 3
          /\ Len(cmdlog) >= 1 => IsVdm(cmdlog[1], RebootObjects)
          /\ Len(cmdlog) >= 2 =>
                /\ cmdlog[1].res = "ok"
                /\ rsReadings # <<>> /\ Last(rsReadings)
                /\ IsVdm(cmdlog[2], SerialObjects)
          /\ Len(cmdlog) = 3 =>
                /\ cmdlog[2].res = "ok"
                /\ IsSerialDven(cmdlog[3])
                /\ lastMode.by = "serial" /\ lastMode.res = "TpsModeDbma"
          /\ (Len(cmdlog) = 1 /\ Failed(cmdlog[1].res)) =>
                (Top.fn \in {"vdms", "reboot", "reboot_serial", "main"} /\ ~ret.ok)
          /\ ret.err = "ReconnectTimeout" => Len(cmdlog) = 1
          /\ (Top.fn = "main" /\ Len(cmdlog) <= 1) => ~ret.ok
    /\ InSub("serial") =>
          /\ Len(cmdlog) <= 2
          /\ Len(cmdlog) >= 1 => IsVdm(cmdlog[1], SerialObjects)
          /\ Len(cmdlog) = 2 =>
                /\ cmdlog[1].res = "ok"
                /\ IsSerialDven(cmdlog[2])
                /\ lastMode.by = "serial" /\ lastMode.res = "TpsModeDbma"

C16_Witness ==
    /\ InSub("reboot_serial") /\ Top.fn = "main" /\ ret.ok
    /\ Len(cmdlog) = 3 /\ cmdlog[3].res = "ok"
    /\ Len(rsReadings) >= 2 /\ ~rsReadings[1]

C16_WitnessTimeout ==
    /\ InSub("reboot_serial") /\ Top.fn = "main" /\ ret.err = "ReconnectTimeout"
    /\ Len(cmdlog) = 1 /\ cmdlog[1].res = "ok"


\* C17: read_block asks the backend for out_len + 1 bytes, returns Ok only
\* when the first byte received declares out_len, and then returns the
\* bytes [1..=out_len].
C17_LengthByteChecked ==
    (At("block", "done") /\ ret.ok) =>
        /\ Len(lastRaw) = Len(Top.a.payload) + 1
        /\ lastRaw[1] = Len(Top.a.payload)
        /\ Top.a.out = SubSeq(lastRaw, 2, Len(Top.a.payload) + 1)

\* What read_block does: it returns the bytes [1..=out_len] whatever the
\* first byte declares.
C17_LengthByteIgnored ==
    (At("block", "done") /\ ret.ok) =>
        /\ Len(lastRaw) = Len(Top.a.payload) + 1
        /\ Top.a.out = SubSeq(lastRaw, 2, Len(Top.a.payload) + 1)

\* C18: a command polls CMD1 a second time only after the thread has
\* slept since the command began.
C18_SleepBetweenPolls ==
    (cmd.res # "none" /\ cmd.polls >= 2) => cmd.slept > 0

\* What the poll loop does: the thread sleeps only once the command has
\* succeeded, for the settle delay.
C18_SleepOnlyAfterPolling ==
    cmd.slept > 0 => cmd.res = "ok" /\ cmd.slept = cmd.delay

RECURSIVE Reverse(_)
Reverse(s) == IF s = <<>> THEN <<>> ELSE Append(Reverse(Tail(s)), Head(s))

\* C19: the payload of the LOCK command unlock issues is the model token
\* of the compatible string in upper case, reversed.
C19_KeyIsReversedToken ==
    \A i \in 1..Len(UnlockLog) :
        UnlockLog[i].tag = <<76, 79, 67, 75>> =>
            UnlockLog[i].data = Reverse(ToUppercase(ModelToken(compat)))

\* What the code sends: the model token in upper case, not reversed
\* ("J314" for "apple,j314").
C19_KeyIsUppercaseToken ==
    \A i \in 1..Len(UnlockLog) :
        UnlockLog[i].tag = <<76, 79, 67, 75>> =>
            /\ UnlockLog[i].data = ToUppercase(ModelToken(compat))
            /\ compat = <<97, 112, 112, 108, 101, 44, 106, 51, 49, 52>> =>
                  UnlockLog[i].data = <<74, 51, 49, 52>>


\* Device::new is returning an error after the Device was built.
OpenFailedLate == OnStack("new") /\ NewFrame.pc = "dropped"

\* The commands of the teardown so far are the first of DBMa [0], LOCK
\* [0, 0, 0, 0].
TeardownPrefix ==
    /\ Len(cmdlog) <= 2
    /\ Len(cmdlog) >= 1 => cmdlog[1].tag = <<68, 66, 77, 97>> /\ cmdlog[1].data = <<0>>
    /\ Len(cmdlog) = 2 => cmdlog[2].tag = <<76, 79, 67, 75>> /\ cmdlog[2].data = <<0, 0, 0, 0>>

\* C20: when session open fails once the Device exists, DBMa [0] and then
\* LOCK [0, 0, 0, 0] are each issued once before open returns; when open
\* fails before that, no command is issued.
C20_TeardownOnFailedOpen ==
    /\ OpenFailedLate =>
          /\ NewFrame.a.err # "none"
          /\ TeardownPrefix
          /\ (At("new", "dropped") \/ exit # "running") => Len(cmdlog) = 2
    /\ (At("main", "after_new") /\ ~ret.ok) =>
          \/ ret.err = "I2CError" /\ cmdlog = <<>> /\ wlog = <<>>
          \/ Len(cmdlog) = 2 /\ TeardownPrefix

\* C20 on the runs in which get_mode does not panic during the teardown.
C20_TeardownOnFailedOpenUnlessPanic ==
    exit \in {"panic", "abort"} \/ C20_TeardownOnFailedOpen

====
